---- MODULE Spec2Model ----
(***************************************************************************)
(* A model of src/src/executor.rs: the single-threaded executor, its task  *)
(* queue, the reference-counted Task and the hand-written waker vtable.    *)
(*                                                                         *)
(* User code (the root future, the spawned futures, the root factory and   *)
(* the code around block_on) is the environment: it runs whenever control  *)
(* is inside a poll, inside the factory, or outside every block_on, and it *)
(* may spawn, clone / wake / drop the wakers it holds, and call block_on.  *)
(* A root future is a join: it reports ready once every Task of its        *)
(* `need.on` set has completed; need.never is a root that is never ready.  *)
(***************************************************************************)
EXTENDS Naturals, Sequences, FiniteSets

\* ---- bounds -------------------------------------------------------------
MaxTasks == 2      \* Tasks ever created by spawn
MaxHeld  == 1      \* waker clones of one Task held by user code / the reactor
MaxQueue == 2      \* entries of one local_queue

Tasks     == 1..MaxTasks
Executors == {"ex1", "ex2"}
NoEx      == "none"          \* EX is not set
NoTask    == 0               \* the drain loop holds no Task
\* What a root future waits for: the Tasks of `on`, or (never) an event that
\* never comes.
Roots     == [on : SUBSET Tasks, never : {FALSE}] \cup [on : {{}}, never : {TRUE}]

VARIABLES
    strong,     \* Rc strong count of each Task
    storage,    \* "none" (not yet created), "live", "freed"
    done,       \* the Task's future has returned Poll::Ready
    held,       \* waker handles of each Task held outside the run loop
    queue,      \* local_queue of each Executor
    EX,         \* the scoped thread local: the bound Executor, or NoEx
    stack,      \* the block_on calls in progress, innermost last
    todo,       \* the block_on calls the code outside every block_on still makes
    nested,     \* the block_on calls the code inside a poll still makes
    panicked,   \* a panic is unwinding / has unwound the thread
    memErr,     \* a freed Task was touched, or a share released twice
    unbound,    \* history: the operation that was called with EX not set
    lastRet,    \* history: the last block_on return
    selfWoken,  \* history: Tasks woken during their own drive, not redriven yet
    owner,      \* history: the Executor whose queue spawn pushed the Task into
    left        \* history: the entries the last block_on return left in its
                \*          Executor's queue and that were not popped since

vars == <<strong, storage, done, held, queue, EX, stack, todo, nested,
          panicked, memErr, unbound, lastRet, selfWoken, owner, left>>

NoRet == [ex |-> NoEx, need |-> [on |-> {}, never |-> FALSE], via |-> "none"]

\* ---- the machine state the waker and queue functions work on -------------
Mach == [strong |-> strong, storage |-> storage, queue |-> queue,
         panic |-> FALSE, err |-> FALSE]

\* Rc::clone: one more share.  Reading the count of a freed box is an error.
RcClone(m, t) ==
    IF m.err \/ m.storage[t] # "live"
    THEN [m EXCEPT !.err = TRUE]
    ELSE [m EXCEPT !.strong[t] = @ + 1]

\* drop(Rc): one share less; the box is released when the last one goes.
RcDrop(m, t) ==
    IF m.err \/ m.storage[t] # "live" \/ m.strong[t] = 0
    THEN [m EXCEPT !.err = TRUE]
    ELSE IF m.strong[t] = 1
         THEN [m EXCEPT !.strong[t] = 0, !.storage[t] = "freed"]
         ELSE [m EXCEPT !.strong[t] = @ - 1]

\* Mutant of push: push_front.
push_Front(m, e, t) == [m EXCEPT !.queue[e] = <<t>> \o @]

\* Mutant of push: a Task that already has an entry is not queued again.
push_Dedup(m, e, t) ==
    IF \E i \in 1..Len(m.queue[e]) : m.queue[e][i] = t
    THEN m ELSE [m EXCEPT !.queue[e] = Append(@, t)]

\* TaskQueue::push: push_back.
push(m, e, t) == [m EXCEPT !.queue[e] = Append(@, t)]

\* Mutant of popFront: the front entry is read but stays in the queue.
popFront_Keeps(q) == q

\* Mutant of popFront: the pop takes the front entry and loses the one behind.
popFront_Skips(q) == IF Len(q) > 1 THEN Tail(Tail(q)) ELSE Tail(q)

\* TaskQueue::pop: pop_front (the caller has checked the queue is not empty).
popFront(q) == Tail(q)
popped(q)   == Head(q)

\* increase_refcount: clone the Rc behind the pointer and forget the clone.
increase_refcount(m, t) == RcClone(m, t)

\* Mutant of clone_waker: a new handle without a new share.
clone_waker_NoShare(m, t) == m

\* Helper::clone_waker
clone_waker(m, t) == increase_refcount(m, t)

\* Mutant of wake_by_ref_: a silent no-op when no executor is bound.
wake_by_ref_Silent(m, t) ==
    IF EX = NoEx THEN m ELSE push(RcClone(m, t), EX, t)

\* Mutant of wake_by_ref_: the wake of a Task that is being driven is dropped.
wake_by_ref_DropsSelfWake(m, t) ==
    IF EX = NoEx
    THEN [m EXCEPT !.panic = TRUE]
    ELSE IF \E i \in 1..Len(stack) : stack[i].cur = t THEN m
         ELSE push(RcClone(m, t), EX, t)

\* Task::wake_by_ref_: EX.with panics when EX is not set, else push a clone.
wake_by_ref_(m, t) ==
    IF EX = NoEx
    THEN [m EXCEPT !.panic = TRUE]
    ELSE push(RcClone(m, t), EX, t)

\* Task::wake_: wake_by_ref_, then `self` goes out of scope (also on unwind).
wake_(m, t) == RcDrop(wake_by_ref_(m, t), t)

\* Helper::wake: Rc::from_raw takes the waker's share over.
Helper_wake(m, t) == wake_(m, t)

\* Mutant of Helper_wake_by_ref: the rebuilt Rc is dropped on return.
Helper_wake_by_ref_Consuming(m, t) == wake_(m, t)

\* Helper::wake_by_ref: the Rc is rebuilt inside ManuallyDrop, no share taken.
Helper_wake_by_ref(m, t) == wake_by_ref_(m, t)

\* Mutant of drop_waker: the share is forgotten instead of released.
drop_waker_Leaks(m, t) == m

\* Helper::drop_waker
drop_waker(m, t) == RcDrop(m, t)

\* waker(): Rc::into_raw moves the share into the Waker, the count is untouched.
waker(m, t) == m

\* Executor::spawn: box the future in a fresh Rc and push it on EX's queue;
\* EX.with panics when EX is not set and the unwinding drops the new Rc.
spawn(m, t) ==
    LET m1 == [m EXCEPT !.storage[t] = "live", !.strong[t] = 1]
    IN  IF EX = NoEx
        THEN RcDrop([m1 EXCEPT !.panic = TRUE], t)
        ELSE push(m1, EX, t)

\* ---- frames of block_on ---------------------------------------------------
\* pc: "factory" f() is running          "poll1" first root poll is running
\*     "drain"   at the head of while     "drive" a Task's poll is running
\*     "poll2"   second root poll         "wait"  inside reactor.wait()
UserPcs == {"factory", "poll1", "drive", "poll2"}

Frame(e, need) ==
    [ex |-> e, pc |-> "factory", cur |-> NoTask, fresh |-> FALSE, snap |-> 0,
     need |-> need, prev |-> EX]

Depth    == Len(stack)
Top      == stack[Depth]
Running  == ~panicked /\ ~memErr
UserCode == Running /\ (IF stack = <<>> THEN TRUE ELSE Top.pc \in UserPcs)
InLoop   == Running /\ stack # <<>>
SetTop(f) == [stack EXCEPT ![Depth] = f]
\* Mutant of Driving: the RefCell does not notice a borrow that is still out.
Driving_Unchecked(t) == FALSE
Driving(t) == \E i \in 1..Depth : stack[i].cur = t
Count(q, t) == Cardinality({i \in 1..Len(q) : q[i] = t})

\* Unwinding a panic drops the locals of every drain loop on the stack: the
\* waker `w` and the popped Rc `t`.
RECURSIVE Unwind(_, _)
Unwind(m, i) ==
    IF i = 0 THEN m
    ELSE LET c == stack[i].cur
         IN  Unwind(IF c = NoTask THEN m ELSE RcDrop(drop_waker(m, c), c), i - 1)

\* The state after a step that computed m; st and ex are the stack and the
\* binding the step leaves when it does not panic.
Commit(m, st, ex) ==
    LET u == IF m.panic THEN Unwind(m, Depth) ELSE m
    IN  /\ strong' = u.strong
        /\ storage' = u.storage
        /\ queue' = u.queue
        /\ memErr' = u.err
        /\ panicked' = m.panic
        /\ stack' = IF m.panic THEN <<>> ELSE st
        /\ EX' = IF m.panic THEN (IF stack = <<>> THEN EX ELSE stack[1].prev) ELSE ex

Room(n) == IF EX = NoEx THEN TRUE ELSE Len(queue[EX]) + n <= MaxQueue
InOwnDrive(t) == stack # <<>> /\ Top.pc = "drive" /\ Top.cur = t

\* ---- Init -----------------------------------------------------------------
\* The state after Executor::new() of both executors, before any block_on.
Start ==
    /\ strong = [t \in Tasks |-> 0]
    /\ storage = [t \in Tasks |-> "none"]
    /\ done = [t \in Tasks |-> FALSE]
    /\ held = [t \in Tasks |-> 0]
    /\ queue = [e \in Executors |-> <<>>]
    /\ EX = NoEx
    /\ stack = <<>>
    /\ panicked = FALSE
    /\ memErr = FALSE
    /\ unbound = "none"
    /\ lastRet = NoRet
    /\ selfWoken = {}
    /\ owner = [t \in Tasks |-> NoEx]
    /\ left = <<>>

\* One block_on call on ex1, no block_on inside a poll.
Init == Start /\ todo = <<"ex1">> /\ nested = <<>>

\* Two block_on calls in a row, on the same or on different executors.
InitSeq == Start /\ todo \in {<<"ex1", "ex1">>, <<"ex1", "ex2">>} /\ nested = <<>>

\* One block_on call on ex1 and one made from inside a poll or the factory.
InitNest == Start /\ todo = <<"ex1">> /\ nested \in {<<"ex1">>, <<"ex2">>}

\* ---- user code ------------------------------------------------------------
\* Executor::spawn(fut)
Spawn ==
    /\ UserCode
    /\ \E t \in Tasks :
        /\ storage[t] = "none"
        /\ \A u \in Tasks : u < t => storage[u] # "none"
        /\ Room(1)
        /\ Commit(spawn(Mach, t), stack, EX)
        /\ owner' = [owner EXCEPT ![t] = EX]
    /\ unbound' = IF EX = NoEx THEN "spawn" ELSE unbound
    /\ UNCHANGED <<done, held, todo, nested, lastRet, selfWoken, left>>

\* clone() of a waker of Task t that user code can reach: one it holds, or
\* cx.waker() inside the poll of t.
Clone ==
    /\ UserCode
    /\ \E t \in Tasks :
        /\ held[t] > 0 \/ InOwnDrive(t)
        /\ held[t] < MaxHeld
        /\ Commit(clone_waker(Mach, t), stack, EX)
        /\ held' = [held EXCEPT ![t] = @ + 1]
    /\ UNCHANGED <<done, todo, nested, unbound, lastRet, selfWoken, owner, left>>

\* cx.waker().wake_by_ref() inside the poll of the Task being driven
WakeByRefCur ==
    /\ UserCode /\ stack # <<>> /\ Top.pc = "drive"
    /\ Room(1)
    /\ Commit(Helper_wake_by_ref(Mach, Top.cur), stack, EX)
    /\ selfWoken' = selfWoken \cup {Top.cur}
    /\ UNCHANGED <<done, held, todo, nested, unbound, lastRet, owner, left>>

\* wake_by_ref() on a waker that user code holds
WakeByRefHeld ==
    /\ UserCode
    /\ \E t \in Tasks :
        /\ held[t] > 0
        /\ Room(1)
        /\ Commit(Helper_wake_by_ref(Mach, t), stack, EX)
        /\ selfWoken' = IF InOwnDrive(t) THEN selfWoken \cup {t} ELSE selfWoken
    /\ unbound' = IF EX = NoEx THEN "wake_by_ref" ELSE unbound
    /\ UNCHANGED <<done, held, todo, nested, lastRet, owner, left>>

\* wake() on a waker that user code holds: the handle is consumed
WakeHeld ==
    /\ UserCode
    /\ \E t \in Tasks :
        /\ held[t] > 0
        /\ Room(1)
        /\ Commit(Helper_wake(Mach, t), stack, EX)
        /\ held' = [held EXCEPT ![t] = @ - 1]
        /\ selfWoken' = IF InOwnDrive(t) THEN selfWoken \cup {t} ELSE selfWoken
    /\ unbound' = IF EX = NoEx THEN "wake" ELSE unbound
    /\ UNCHANGED <<done, todo, nested, lastRet, owner, left>>

\* drop of a waker that user code holds
DropHeld ==
    /\ UserCode
    /\ \E t \in Tasks :
        /\ held[t] > 0
        /\ Commit(drop_waker(Mach, t), stack, EX)
        /\ held' = [held EXCEPT ![t] = @ - 1]
    /\ UNCHANGED <<done, todo, nested, unbound, lastRet, selfWoken, owner, left>>

\* ---- block_on ------------------------------------------------------------
\* What the root future's poll reports (the root is a join over need.on).
RootReady(need) == ~need.never /\ \A t \in need.on : done[t]

\* Mutant of BlockOn: the call starts without EX.set.
BlockOn_NoBind ==
    /\ UserCode
    /\ LET calls == IF stack = <<>> THEN todo ELSE nested
       IN  /\ calls # <<>>
           /\ \E need \in Roots : stack' = Append(stack, Frame(Head(calls), need))
           /\ todo' = IF stack = <<>> THEN Tail(todo) ELSE todo
           /\ nested' = IF stack = <<>> THEN nested ELSE Tail(nested)
    /\ UNCHANGED <<strong, storage, done, held, queue, EX, panicked, memErr,
                   unbound, lastRet, selfWoken, owner, left>>

\* ex.block_on(f): EX.set binds the executor, then f() starts running.
BlockOn ==
    /\ UserCode
    /\ LET calls == IF stack = <<>> THEN todo ELSE nested
       IN  /\ calls # <<>>
           /\ \E need \in Roots : stack' = Append(stack, Frame(Head(calls), need))
           /\ EX' = Head(calls)
           /\ todo' = IF stack = <<>> THEN Tail(todo) ELSE todo
           /\ nested' = IF stack = <<>> THEN nested ELSE Tail(nested)
    /\ UNCHANGED <<strong, storage, done, held, queue, panicked, memErr,
                   unbound, lastRet, selfWoken, owner, left>>

\* f() returns the root future, the loop is entered and the first poll starts.
FactoryDone ==
    /\ InLoop /\ Top.pc = "factory"
    /\ stack' = SetTop([Top EXCEPT !.pc = "poll1"])
    /\ UNCHANGED <<strong, storage, done, held, queue, EX, todo, nested, panicked,
                   memErr, unbound, lastRet, selfWoken, owner, left>>

\* Mutant of Return: the entries still queued are dropped with the call.
Return_ClearsQueue ==
    /\ stack' = SubSeq(stack, 1, Depth - 1)
    /\ EX' = Top.prev
    /\ lastRet' = [ex |-> Top.ex, need |-> Top.need, via |-> Top.pc]
    /\ left' = queue[Top.ex]
    /\ queue' = [queue EXCEPT ![Top.ex] = <<>>]
    /\ UNCHANGED <<strong, storage, done, held, todo, nested, panicked, memErr,
                   unbound, selfWoken, owner>>

\* `break t`: block_on returns; the scoped thread local gets its old value back.
Return ==
    /\ stack' = SubSeq(stack, 1, Depth - 1)
    /\ EX' = Top.prev
    /\ lastRet' = [ex |-> Top.ex, need |-> Top.need, via |-> Top.pc]
    /\ left' = queue[Top.ex]
    /\ UNCHANGED <<strong, storage, done, held, queue, todo, nested, panicked, memErr,
                   unbound, selfWoken, owner>>

\* The step after a root poll that reported Pending.
Pending1 ==
    /\ stack' = SetTop([Top EXCEPT !.pc = "drain", !.snap = Len(queue[Top.ex])])
    /\ UNCHANGED <<strong, storage, done, held, queue, EX, todo, nested, panicked,
                   memErr, unbound, lastRet, selfWoken, owner, left>>

\* Mutant of Pending2: the loop goes round without reactor.wait().
Pending2_NoWait ==
    /\ stack' = SetTop([Top EXCEPT !.pc = "poll1"])
    /\ UNCHANGED <<strong, storage, done, held, queue, EX, todo, nested, panicked,
                   memErr, unbound, lastRet, selfWoken, owner, left>>

\* Mutant of Pending2: with the root not ready the call gives up and returns.
Pending2_GivesUp == Return

Pending2 ==
    /\ stack' = SetTop([Top EXCEPT !.pc = "wait"])
    /\ UNCHANGED <<strong, storage, done, held, queue, EX, todo, nested, panicked,
                   memErr, unbound, lastRet, selfWoken, owner, left>>

\* The first root poll of an iteration ends.
PollRoot1 ==
    /\ InLoop /\ Top.pc = "poll1"
    /\ IF RootReady(Top.need) THEN Return ELSE Pending1

\* Mutant of PollRoot2: the call returns whatever the poll reported.
PollRoot2_AlwaysReturns ==
    /\ InLoop /\ Top.pc = "poll2"
    /\ Return

\* Mutant of PollRoot2: the result of the poll after the drain is ignored.
PollRoot2_IgnoresReady ==
    /\ InLoop /\ Top.pc = "poll2"
    /\ Pending2

\* The root poll after the drain ends.
PollRoot2 ==
    /\ InLoop /\ Top.pc = "poll2"
    /\ IF RootReady(Top.need) THEN Return ELSE Pending2

\* while let Some(t) = pop(): borrow the future, build the waker, start the
\* poll.  borrow_mut panics when the future is already borrowed by a drive
\* step further down the stack; the popped Rc is dropped by the unwinding.
DrainPop ==
    /\ InLoop /\ Top.pc = "drain"
    /\ queue[Top.ex] # <<>>
    /\ LET t  == popped(queue[Top.ex])
           m0 == [Mach EXCEPT !.queue[Top.ex] = popFront(@)]
           m1 == IF m0.storage[t] # "live" THEN [m0 EXCEPT !.err = TRUE] ELSE m0
       IN  IF Driving(t)
           THEN /\ Commit(RcDrop([m1 EXCEPT !.panic = TRUE], t), stack, EX)
                /\ UNCHANGED selfWoken
           ELSE /\ Commit(waker(RcClone(m1, t), t),
                          SetTop([Top EXCEPT !.pc = "drive", !.cur = t,
                                             !.fresh = (Top.snap = 0),
                                             !.snap = IF @ = 0 THEN 0 ELSE @ - 1]),
                          EX)
                /\ selfWoken' = selfWoken \ {t}
    /\ left' = IF Top.ex = lastRet.ex /\ left # <<>> THEN Tail(left) ELSE left
    /\ UNCHANGED <<done, held, todo, nested, unbound, lastRet, owner>>

\* Mutant of DrainEmpty: the pass ends once the entries that were queued when
\* it began are driven.
DrainEmpty_Snapshot ==
    /\ InLoop /\ Top.pc = "drain"
    /\ Top.snap = 0
    /\ stack' = SetTop([Top EXCEPT !.pc = "poll2", !.snap = 0])
    /\ UNCHANGED <<strong, storage, done, held, queue, EX, todo, nested, panicked,
                   memErr, unbound, lastRet, selfWoken, owner, left>>

\* pop() returned None: the while loop ends and the second root poll starts.
DrainEmpty ==
    /\ InLoop /\ Top.pc = "drain"
    /\ queue[Top.ex] = <<>>
    /\ stack' = SetTop([Top EXCEPT !.pc = "poll2", !.snap = 0])
    /\ UNCHANGED <<strong, storage, done, held, queue, EX, todo, nested, panicked,
                   memErr, unbound, lastRet, selfWoken, owner, left>>

\* The Task's poll returns; context, w, the RefMut and t go out of scope.
DriveEnd ==
    /\ InLoop /\ Top.pc = "drive"
    /\ \E r \in {"Ready", "Pending"} :
        done' = [done EXCEPT ![Top.cur] = @ \/ r = "Ready"]
    /\ Commit(RcDrop(drop_waker(Mach, Top.cur), Top.cur),
              SetTop([Top EXCEPT !.pc = "drain", !.cur = NoTask, !.fresh = FALSE]),
              EX)
    /\ UNCHANGED <<held, todo, nested, unbound, lastRet, selfWoken, owner, left>>

\* reactor.wait(): blocks until an interest is satisfied and then wakes, by
\* value, the wakers registered for the satisfied interests.
WakeOrders ==
    {<<t>> : t \in Tasks} \cup
    {<<t, u>> : <<t, u>> \in {p \in Tasks \X Tasks : p[1] # p[2]}}

RECURSIVE WakeAll(_, _)
WakeAll(m, ws) ==
    IF ws = <<>> THEN m ELSE WakeAll(Helper_wake(m, Head(ws)), Tail(ws))

Wait ==
    /\ InLoop /\ Top.pc = "wait"
    /\ \E ws \in WakeOrders :
        /\ \A i \in 1..Len(ws) : held[ws[i]] > 0
        /\ Room(Len(ws))
        /\ Commit(WakeAll(Mach, ws), SetTop([Top EXCEPT !.pc = "poll1"]), EX)
        /\ held' = [t \in Tasks |->
                      IF \E i \in 1..Len(ws) : ws[i] = t THEN held[t] - 1 ELSE held[t]]
    /\ UNCHANGED <<done, todo, nested, unbound, lastRet, selfWoken, owner, left>>

Next ==
    \/ Spawn \/ Clone \/ WakeByRefCur \/ WakeByRefHeld
    \/ WakeHeld \/ DropHeld \/ BlockOn \/ FactoryDone \/ PollRoot1 \/ PollRoot2
    \/ DrainPop \/ DrainEmpty \/ DriveEnd \/ Wait

Spec == Init /\ [][Next]_vars
SpecSeq == InitSeq /\ [][Next]_vars
SpecNest == InitNest /\ [][Next]_vars

\* The run loop is straight-line code: a poll that was started returns and
\* the while loop goes on popping.
FairSpec == Spec /\ WF_vars(DriveEnd) /\ WF_vars(DrainPop)

\* The same, and a drain loop whose queue is empty goes on to the root poll.
FairLoopSpec == FairSpec /\ WF_vars(DrainEmpty)

\* ---- what the claims speak about -------------------------------------------
\* Queue entries of Task t, over every executor.
Entries(t) == Count(queue["ex1"], t) + Count(queue["ex2"], t)
\* Drive steps of Task t in progress: each holds the popped Rc and the waker w.
Drives(t) == Cardinality({i \in 1..Depth : stack[i].cur = t})
\* Outstanding waker handles bound to Task t.
Wakers(t) == held[t] + Drives(t)

\* C1 (as stated): the strong count of every Task equals its outstanding waker
\* handles plus its queue entries, in every reachable state.
C1_SharesAreWakersPlusEntries ==
    \A t \in Tasks : strong[t] = Wakers(t) + Entries(t)

\* C1 (amended): the strong count of every Task equals its outstanding waker
\* handles plus its queue entries plus one for each drive step of it in
\* progress (the Rc the drain loop popped and holds until the poll returns).
C1_ShareCount ==
    \A t \in Tasks : strong[t] = Wakers(t) + Entries(t) + Drives(t)

C1_Witness ==
    \E t \in Tasks : Drives(t) = 1 /\ held[t] = 1 /\ Entries(t) = 1 /\ strong[t] = 4

\* C2: the storage of a Task is released only when its last share goes, no
\* share is released twice and nothing touches the Task after the release:
\* a Task is live exactly while it has shares, and a released Task has no
\* waker, no queue entry and no drive step left that could reach it.
C2_ReleasedOnceAtLastShare ==
    /\ ~memErr
    /\ \A t \in Tasks :
        /\ storage[t] = "live" <=> strong[t] > 0
        /\ storage[t] = "freed" => Wakers(t) = 0 /\ Entries(t) = 0

C2_Witness ==
    \E t \in Tasks : storage[t] = "freed" /\ ~panicked /\ stack # <<>>
                     /\ \E u \in Tasks : u # t /\ held[u] = 1 /\ Entries(u) = 1

\* C3: when block_on has returned, every Task the root's readiness depends on
\* has been driven to completion.
C3_CompletionBeforeReturn ==
    lastRet # NoRet => \A t \in lastRet.need.on : done[t]

C3_Witness == lastRet # NoRet /\ lastRet.need.on = Tasks

\* C4: a Task woken during its own drive step keeps a queue entry on the
\* bound executor while the drain pass goes on, and it is driven again (or
\* the thread panics): the wake is not dropped.
C4_NoLostWakeup ==
    /\ [](\A t \in selfWoken :
            ~panicked => /\ Count(queue[EX], t) >= 1
                         /\ Top.pc \in {"drive", "drain"})
    /\ \A t \in Tasks : (t \in selfWoken) ~> (t \notin selfWoken \/ panicked)

C4_Witness == \E t \in selfWoken : stack # <<>> /\ Top.pc = "drain" /\ ~done[t]

\* ---- steps, as seen from the outermost changes of the state ----------------
SameDepth == ~panicked' /\ Len(stack') = Depth
PcAfter   == stack'[Depth].pc
\* block_on of the innermost frame returns in this step.
Returns   == ~panicked' /\ Len(stack') = Depth - 1

\* C5: every queue changes only by appending at the tail or by removing the
\* head, and the removed head is the Task whose drive step starts: Tasks are
\* driven in the order their entries were pushed.
C5_FIFO ==
    [][\A e \in Executors :
          \/ queue'[e] = queue[e]
          \/ /\ Len(queue'[e]) > Len(queue[e])
             /\ SubSeq(queue'[e], 1, Len(queue[e])) = queue[e]
          \/ /\ queue[e] # <<>>
             /\ queue'[e] = Tail(queue[e])
             /\ \/ panicked'
                \/ SameDepth /\ PcAfter = "drive" /\ stack'[Depth].cur = Head(queue[e])
      ]_vars

\* A is being driven while B, pushed after A, is still queued.
C5_Witness ==
    /\ stack # <<>> /\ Top.pc = "drive" /\ Top.cur = 1
    /\ queue[Top.ex] = <<2, 1>>

\* C6: spawn, wake and wake_by_ref called while no executor is bound panic,
\* and the call changes no queue.
C6_UnboundCallPanics ==
    [][unbound' # unbound => panicked' /\ queue' = queue]_vars

C6_Witness ==
    /\ unbound = "wake_by_ref" /\ panicked
    /\ \E t \in Tasks : held[t] = 1 /\ strong[t] = 1 /\ Entries(t) = 0

\* C7 (as stated): once the root is ready during a drain, no further Task is
\* driven before the root is polled: the drain does not go on to empty the
\* queue.
C7_ReturnsBeforeQueueIsEmpty ==
    [][InLoop /\ Top.pc = "drain" /\ RootReady(Top.need) /\ queue[Top.ex] # <<>>
         => ~(SameDepth /\ PcAfter = "drive")]_vars

\* C7 (amended): once the root is ready during a drain, the drain still goes
\* on until the queue is empty, only then the root is polled, and that poll
\* makes block_on return.
C7_RootPriority ==
    [][InLoop /\ RootReady(Top.need) /\ ~panicked' /\ Len(stack') <= Depth =>
         CASE Top.pc = "drain" /\ queue[Top.ex] # <<>> ->
                  SameDepth /\ PcAfter = "drive"
           [] Top.pc = "drain" /\ queue[Top.ex] = <<>> ->
                  SameDepth /\ PcAfter = "poll2"
           [] Top.pc \in {"poll1", "poll2"} ->
                  \/ SameDepth /\ PcAfter = Top.pc
                  \/ Returns /\ lastRet' = [ex |-> Top.ex, need |-> Top.need,
                                           via |-> Top.pc]
           [] OTHER -> TRUE
      ]_vars

\* block_on returned from the poll after a drain in which the root got ready.
C7_Witness ==
    lastRet.via = "poll2" /\ lastRet.need.on # {} /\ \A t \in lastRet.need.on : done[t]

\* C8 (as stated): a drain pass drives only entries that were in the queue
\* when the pass began.
C8_OnlySnapshotDriven ==
    \A i \in 1..Depth : stack[i].pc = "drive" => ~stack[i].fresh

\* C8 (amended): a drain pass ends, and the root is polled again, only when
\* the queue is empty, so an entry pushed during the pass is driven in that
\* same pass.
C8_DrainUntilEmpty ==
    [][InLoop /\ Top.pc \in {"drain", "drive"} /\ SameDepth
         /\ PcAfter \notin {"drain", "drive"}
         => Top.pc = "drain" /\ PcAfter = "poll2" /\ queue[Top.ex] = <<>>]_vars

\* An entry pushed during the pass is being driven in the pass.
C8_Witness ==
    stack # <<>> /\ Top.pc = "drive" /\ Top.fresh

\* C9: reactor.wait() is only entered with an empty queue.
C9_WaitOnlyWhenQueueEmpty ==
    \A i \in 1..Depth : stack[i].pc = "wait" => queue[stack[i].ex] = <<>>

\* C10: a block_on whose root is never ready does not return, every new loop
\* iteration is entered from reactor.wait(), and a root poll after the drain
\* that does not end the call leads into reactor.wait().
C10_NoBusyLoop ==
    [][InLoop /\ Top.need.never /\ ~panicked' /\ Len(stack') <= Depth =>
         /\ SameDepth
         /\ (PcAfter = "poll1" /\ Top.pc # "poll1") => Top.pc \in {"factory", "wait"}
         /\ (Top.pc = "poll2" /\ PcAfter # "poll2") => PcAfter = "wait"
      ]_vars

\* A second iteration of the loop of a never-ready root has begun.
C10_Witness ==
    /\ stack # <<>> /\ Top.need.never /\ Top.pc = "poll1"
    /\ \E t \in Tasks : done[t]

\* C11: block_on returns only in a step that ends a root poll which reported
\* ready, what it returns is that poll's result, and a root poll that
\* reported ready is never followed by anything but the return.
C11_SoleExit ==
    [][InLoop /\ ~panicked' =>
         /\ Returns => /\ Top.pc \in {"poll1", "poll2"}
                       /\ RootReady(Top.need)
                       /\ lastRet' = [ex |-> Top.ex, need |-> Top.need, via |-> Top.pc]
         /\ (Top.pc \in {"poll1", "poll2"} /\ SameDepth /\ PcAfter # Top.pc)
                => ~RootReady(Top.need)
      ]_vars

\* block_on returned from its first root poll although spawned Tasks were
\* still queued, never driven.
C11_Witness ==
    /\ lastRet # NoRet /\ lastRet.via = "poll1"
    /\ Len(queue[lastRet.ex]) = 2

\* Task t has a waker that user code can reach.
HasWaker(t) == held[t] > 0 \/ InOwnDrive(t)

\* C12: from every reachable state, on a waker of Task t: clone adds one share
\* and changes nothing else; drop removes one share and leaves the queues
\* alone; with an executor bound, wake by reference adds one share and one
\* queue entry for t, and wake by value adds one queue entry for t and leaves
\* the count as it was (the handle's share becomes the entry's).  The steps
\* user code takes have these effects on the handles it holds.
C12_ShareEffects ==
    /\ [](\A t \in Tasks : HasWaker(t) /\ Running =>
            /\ clone_waker(Mach, t) = [Mach EXCEPT !.strong[t] = @ + 1]
            /\ held[t] > 0 =>
                 LET m == drop_waker(Mach, t)
                 IN  /\ ~m.err /\ ~m.panic /\ m.queue = queue
                     /\ m.strong = [strong EXCEPT ![t] = @ - 1]
            /\ EX # NoEx =>
                 /\ Helper_wake_by_ref(Mach, t) =
                        [Mach EXCEPT !.strong[t] = @ + 1, !.queue[EX] = Append(@, t)]
                 /\ held[t] > 0 =>
                        Helper_wake(Mach, t) = [Mach EXCEPT !.queue[EX] = Append(@, t)])
    /\ [][\A t \in Tasks :
            /\ held'[t] > held[t] =>
                 /\ held' = [held EXCEPT ![t] = @ + 1]
                 /\ strong' = [strong EXCEPT ![t] = @ + 1]
                 /\ queue' = queue /\ stack' = stack /\ storage' = storage
            /\ (held'[t] < held[t] /\ ~panicked') =>
                 /\ held'[t] = held[t] - 1
                 /\ \/ queue' = queue /\ strong'[t] = strong[t] - 1
                    \/ Entries(t)' = Entries(t) + 1 /\ strong'[t] = strong[t]
            /\ (held' = held /\ stack' = stack /\ strong'[t] = strong[t] + 1) =>
                 /\ storage[t] = "live" => Entries(t)' = Entries(t) + 1
                 /\ storage[t] = "none" => Entries(t)' = 1
         ]_vars

\* One held handle and two queue entries of a Task that is not being driven.
C12_Witness ==
    \E t \in Tasks : held[t] = 1 /\ Entries(t) = 2 /\ strong[t] = 3 /\ ~Driving(t)

\* C13: no drive step is ever started on a Task whose future has already
\* reported Ready.
C13_NoPollAfterCompletion ==
    \A i \in 1..Depth : stack[i].pc = "drive" => ~done[stack[i].cur]

\* A drain pass of the innermost block_on is in progress.
InPass == IF stack = <<>> THEN FALSE ELSE Top.pc \in {"drain", "drive"}
\* A step that makes a queue longer.
Grows == \E e \in Executors : Len(queue'[e]) > Len(queue[e])

\* C14 (as stated): every drain pass ends, whatever the Tasks do.
C14_DrainTerminates == InPass ~> ~InPass

\* C14 (amended): a drain pass ends unless entries keep being pushed: in
\* every behaviour either the loop is outside a pass again and again, or
\* pushes happen again and again.
C14_DrainEndsUnlessFed == []<>(~InPass) \/ []<><<Grows>>_vars

\* A Task that woke itself in its previous drive step of this pass is being
\* driven and has woken itself again.
C14_Witness ==
    /\ InPass /\ Top.pc = "drive" /\ Top.fresh
    /\ Top.cur \in selfWoken /\ queue[Top.ex] = <<Top.cur>>

\* A step in which wake_by_ref ran on a waker of Task t without unwinding:
\* one more share, no handle created or consumed, the loop where it was.
WokeByRef(t) ==
    /\ strong'[t] = strong[t] + 1 /\ held' = held /\ stack' = stack
    /\ storage[t] = "live" /\ ~panicked'

\* C15: the queues lose and duplicate nothing, also when a drive step pushes
\* during the drain.  Every step leaves each queue alone, or appends the
\* pushed entries behind the old content, or removes exactly the head, which
\* is then the Task driven (or the thread panics); a wake_by_ref appends
\* exactly its Task on the bound queue; and a drain pass ends only with the
\* queue empty, so an entry pushed during the pass is popped in that pass.
C15_QueueConservation ==
    [][/\ \A e \in Executors :
            \/ queue'[e] = queue[e]
            \/ /\ Len(queue'[e]) > Len(queue[e])
               /\ SubSeq(queue'[e], 1, Len(queue[e])) = queue[e]
               /\ e = EX
            \/ /\ queue[e] # <<>> /\ queue'[e] = Tail(queue[e])
               /\ InLoop /\ Top.pc = "drain" /\ e = Top.ex
               /\ \/ panicked'
                  \/ stack'[Depth].pc = "drive" /\ stack'[Depth].cur = Head(queue[e])
       /\ \A t \in Tasks : WokeByRef(t) => queue' = [queue EXCEPT ![EX] = Append(@, t)]
       /\ (InPass /\ SameDepth /\ PcAfter = "poll2") => queue[Top.ex] = <<>>
      ]_vars

\* Pushes and pops interleaved inside one pass: a Task pushed during the pass
\* has been popped and is being driven, with an entry of the other Task,
\* pushed later, waiting behind it.
C15_Witness ==
    /\ InPass /\ Top.pc = "drive" /\ Top.fresh /\ Top.cur = 2
    /\ queue[Top.ex] = <<1>> /\ held[1] = 0 /\ held[2] = 0

\* C16: wakes are not deduplicated.  One wake or wake_by_ref on a waker of
\* Task t adds exactly one entry of t to the bound queue, two wakes in a row
\* add two, whatever entries t already has; a step that woke t leaves t
\* one entry more; and each pop takes away exactly one entry and makes one
\* drive attempt (a drive step starts, or the attempt panics).
C16_NoDedup ==
    /\ [](\A t \in Tasks : (Running /\ EX # NoEx /\ HasWaker(t)) =>
            LET n == Count(queue[EX], t)
            IN  /\ Count(Helper_wake_by_ref(Mach, t).queue[EX], t) = n + 1
                /\ Count(Helper_wake(Mach, t).queue[EX], t) = n + 1
                /\ Count(Helper_wake(Helper_wake_by_ref(Mach, t), t).queue[EX], t)
                       = n + 2)
    /\ [][/\ \A t \in Tasks : WokeByRef(t) => Entries(t)' = Entries(t) + 1
          /\ \A t \in Tasks :
                (Entries(t)' < Entries(t)) =>
                    /\ Entries(t)' = Entries(t) - 1
                    /\ panicked' \/ Drives(t)' = Drives(t) + 1
         ]_vars

\* Task t was woken twice before it was popped: one of the two entries has
\* been popped and is being driven, the other is still queued for the second
\* drive attempt.
C16_Witness ==
    \E t \in Tasks :
        /\ InOwnDrive(t) /\ Top.fresh /\ t \notin selfWoken
        /\ queue[Top.ex] = <<t>> /\ held[t] = 0 /\ strong[t] = 3

\* C17: at most one drive step of a Task is in progress at any time, and a
\* pop of a Task that is being driven further down the stack panics instead
\* of starting a second drive step of it.
C17_OneDriveAtATime ==
    /\ [](\A t \in Tasks : Drives(t) <= 1)
    /\ [][(/\ InLoop /\ Top.pc = "drain"
           /\ queue[Top.ex] # <<>> /\ queue'[Top.ex] = Tail(queue[Top.ex])
           /\ Drives(Head(queue[Top.ex])) > 0)
              => /\ panicked' /\ stack' = <<>> /\ done' = done
                 /\ queue' = [queue EXCEPT ![Top.ex] = Tail(@)]
         ]_vars

\* A block_on called from inside the drive step of a Task popped that same
\* Task, and the thread panicked with the executor bound (not a usage error
\* of spawn or wake).
C17_Witness ==
    /\ panicked /\ unbound = "none" /\ nested = <<>> /\ lastRet = NoRet
    /\ \E t \in Tasks : storage[t] = "live" /\ ~done[t]

\* C18: the bound executor is, in every state, the one whose block_on call is
\* the innermost in progress, and none when no call is in progress: EX is set
\* from the start of the factory through every poll, drive step and wait(),
\* a return or a panic puts back the binding the call found, and a queue
\* changes only while its executor is the bound one.
C18_BindingDiscipline ==
    /\ [](EX = IF stack = <<>> THEN NoEx ELSE Top.ex)
    /\ [](\A i \in 1..Depth :
            stack[i].prev = IF i = 1 THEN NoEx ELSE stack[i - 1].ex)
    /\ [][/\ Returns => EX' = Top.prev
          /\ \A e \in Executors : queue'[e] # queue[e] => (stack # <<>> /\ e = EX)
         ]_vars

\* The block_on on ex2 that was called inside a poll of the block_on on ex1
\* has returned with an entry left in its queue; ex1 is bound again and its
\* loop goes on.
C18_Witness ==
    /\ lastRet.ex = "ex2" /\ EX = "ex1" /\ InLoop /\ Top.pc = "drive"
    /\ queue["ex2"] # <<>>

\* C19: every queue entry of a Task is in the queue of the executor the Task
\* was spawned into: a wake re-enqueues the Task on its owning executor,
\* whichever executor is bound when the waker fires.
C19_WakeGoesToOwner ==
    \A e \in Executors : \A i \in 1..Len(queue[e]) : owner[queue[e][i]] = e

\* left is the front part of q.
IsPrefix(l, q) == Len(l) <= Len(q) /\ SubSeq(q, 1, Len(l)) = l

\* C20: the entries still queued when block_on returns are neither driven nor
\* dropped by the return: the return changes no queue, no share count and no
\* storage; no queue changes while no block_on is in progress; the entries
\* left stay at the front of that executor's queue in their order until they
\* are popped; each pop on that executor takes the first of them and drives it
\* (or panics); and the first drain pass of the next block_on on that
\* executor does not end before all of them are popped.
C20_LeftoversKept ==
    /\ [](lastRet # NoRet => IsPrefix(left, queue[lastRet.ex]))
    /\ [](\A i \in 1..Depth :
            (stack[i].ex = lastRet.ex /\ stack[i].pc \in {"poll2", "wait"})
                => left = <<>>)
    /\ [][/\ Returns => /\ queue' = queue /\ strong' = strong /\ storage' = storage
                        /\ left' = queue[Top.ex]
          /\ (stack = <<>> /\ stack' = <<>>) => queue' = queue
          /\ (/\ InLoop /\ Top.pc = "drain" /\ Top.ex = lastRet.ex /\ left # <<>>
              /\ queue'[Top.ex] # queue[Top.ex])
                 => /\ queue'[Top.ex] = Tail(queue[Top.ex])
                    /\ Head(queue[Top.ex]) = Head(left)
                    /\ \/ panicked'
                       \/ stack'[Depth].pc = "drive" /\ stack'[Depth].cur = Head(left)
         ]_vars

\* The second block_on on ex1 is in its first drain pass and drives the first
\* of the two entries that the first call left; the second is still queued.
C20_Witness ==
    /\ todo = <<>> /\ lastRet.ex = "ex1" /\ InLoop /\ Top.ex = "ex1"
    /\ Top.pc = "drive" /\ ~Top.fresh /\ Len(left) = 1 /\ queue["ex1"] = left

====
